---- MODULE Spec2Model ----
(***************************************************************************)
(* Corruption-classification and quarantine engine of the gallery          *)
(* organizer: DamageDetector of damage_detector.py ("dd") and of           *)
(* 02-damage_detector.py ("dd02").  One behaviour is one run_scan call on  *)
(* a fresh detector: enumeration, the batched thread-pool scan with        *)
(* incremental checkpoints, report generation and quarantine separation.   *)
(***************************************************************************)
EXTENDS Integers, Sequences, FiniteSets, TLC

\* ----------------------------------------------------------------- bounds
MaxFiles == 3
MaxThreads == 2
MaxBatch == 2
MaxInterval == 2
MaxElapsed == 2

\* ------------------------------------------------------------ file system
\* A path is a directory (sequence of components, "/" first when absolute)
\* and a file name; a name is kept split as pathlib splits it (stem, suffix).
Name(stem, suffix) == [stem |-> stem, suffix |-> suffix]

MkPath(dir, name) == [dir |-> dir, name |-> name]

Cwd == <<"/", "cwd">>

abspath(dir) == IF dir # <<>> /\ Head(dir) = "/" THEN dir ELSE Cwd \o dir

Resolve(p) == MkPath(abspath(p.dir), p.name)

exists(fsys, p) == Resolve(p) \in DOMAIN fsys

IsPrefix(a, b) == Len(a) <= Len(b) /\ SubSeq(b, 1, Len(a)) = a

\* shutil.move(src, dst) onto a path that is no directory: os.rename, which
\* replaces a file already at dst.
shutil_move(fsys, src, dst) ==
    [q \in (DOMAIN fsys \ {Resolve(src)}) \cup {Resolve(dst)} |->
        IF q = Resolve(dst) THEN fsys[Resolve(src)] ELSE fsys[q]]

\* ------------------------------------------------------- the scanned tree
OutputDir == <<"/", "out">>

FileIds == 1..MaxFiles

\* Files 2k-1 and 2k carry the same name in the directories d1 and d2; odd k
\* is an image, even k a video.
NameIdx(f) == (f + 1) \div 2

FileName(f) ==
    Name("f" \o ToString(NameIdx(f)), IF NameIdx(f) % 2 = 1 THEN ".jpg" ELSE ".mp4")

FileDir(root, f) == root \o (IF f % 2 = 1 THEN <<"d1">> ELSE <<"d2">>)

IMAGE_EXTENSIONS == {".jpg", ".jpeg", ".png", ".gif"}

VIDEO_EXTENSIONS == {".mp4", ".avi", ".mkv"}

\* The size limits come from the environment; the upper one is set to 1 MB
\* here so that the limit in bytes stays a small number.
MIN_FILE_SIZE_BYTES == 100

MAX_FILE_SIZE_MB == 1

\* What the files of the tree can be: "plain" is a media file of ordinary
\* size; the others differ from it in size or in the suffix.
Kinds == {"plain", "tiny", "least", "most", "huge", "upper", "text"}

PlainSize == 5000

SizeOf(kind) ==
    CASE kind = "tiny"  -> MIN_FILE_SIZE_BYTES - 1
      [] kind = "least" -> MIN_FILE_SIZE_BYTES
      [] kind = "most"  -> MAX_FILE_SIZE_MB * 1024 * 1024
      [] kind = "huge"  -> MAX_FILE_SIZE_MB * 1024 * 1024 + 1
      [] OTHER          -> PlainSize

upper(suffix) ==
    CASE suffix = ".jpg" -> ".JPG"
      [] suffix = ".mp4" -> ".MP4"
      [] OTHER           -> suffix

\* str.lower on a suffix.
lower(suffix) ==
    CASE suffix = ".JPG" -> ".jpg"
      [] suffix = ".MP4" -> ".mp4"
      [] suffix = ".PNG" -> ".png"
      [] OTHER           -> suffix

\* Kind of file f in the tree of configuration c.
KindOf(c, f) == IF f \in c.odd.who THEN c.odd.kind ELSE "plain"

\* Name of file f in the tree of configuration c.
TreeName(c, f) ==
    CASE KindOf(c, f) = "upper" -> Name(FileName(f).stem, upper(FileName(f).suffix))
      [] KindOf(c, f) = "text"  -> Name(FileName(f).stem, ".txt")
      [] OTHER                  -> FileName(f)

\* Variant: the upper size limit excludes a file of exactly that size.
Accepted_exclusiveMax(size, extension) ==
    /\ ~(size < MIN_FILE_SIZE_BYTES)
    /\ ~(size >= MAX_FILE_SIZE_MB * 1024 * 1024)
    /\ extension \in IMAGE_EXTENSIONS \/ extension \in VIDEO_EXTENSIONS

\* get_file_info: whether it returns a FileInfo (it returns None otherwise).
Accepted(size, extension) ==
    /\ ~(size < MIN_FILE_SIZE_BYTES)
    /\ ~(size > MAX_FILE_SIZE_MB * 1024 * 1024)
    /\ extension \in IMAGE_EXTENSIONS \/ extension \in VIDEO_EXTENSIONS

\* FileInfo as get_file_info builds it.
get_file_info(c, f) ==
    [path      |-> MkPath(FileDir(c.directory_path, f), TreeName(c, f)),
     name      |-> TreeName(c, f),
     size      |-> SizeOf(KindOf(c, f)),
     extension |-> lower(TreeName(c, f).suffix),
     is_image  |-> lower(TreeName(c, f).suffix) \in IMAGE_EXTENSIONS,
     is_video  |-> lower(TreeName(c, f).suffix) \in VIDEO_EXTENSIONS,
     corruption_status |-> "unknown",
     error_message     |-> ""]

\* scan_directory: the files of the tree for which get_file_info gives a
\* FileInfo, in the order of the walk.
Candidates(c) ==
    SelectSeq([i \in 1..c.numFiles |-> i],
              LAMBDA f : Accepted(get_file_info(c, f).size, get_file_info(c, f).extension))

\* ------------------------------------------------------------------ state
VARIABLES
    impl,       \* which DamageDetector runs: "dd" or "dd02"
    cfg,        \* the configuration and the arguments of run_scan
    finding,    \* per file of the tree: what a verifier reads out of its content
    pc,         \* position of run_scan, and of its caller after it
    fs,         \* the file system: resolved path -> content
    files,      \* candidates returned by scan_directory, in order
    nextIdx,    \* index in files of the first file of the next batch
    task,       \* per file: state of its future in the current pool
    worker,     \* per file: the pool worker executing its task (0: none)
    lock,       \* dd: the task holding self.lock (0: the lock is free)
    batch_of,   \* per file: the process_files call that submitted it (0: none yet)
    elapsed,    \* process_files: time.time() - submit_times of the current call
    warned,     \* process_files: warned
    stall_warnings, \* per file: number of stall warnings logged for its task
    pending,    \* process_files: futures not yet seen done
    info,       \* per file: its FileInfo object
    results,    \* self.results
    processed_since_save,
    partial_report, \* the most recently written damage_report_partial file
    savesWritten,   \* number of partial reports written so far
    saveWarnings, \* number of "incremental save failed" warnings logged
    original_directory, \* dd02: self.original_directory
    sepList,    \* records the separation loop iterates over
    sepIdx,     \* position of the separation loop
    moved_files,  \* dd: moved_files; dd02: one entry per corrupt_moved / suspicious_moved
    failed_moves, \* dd: failed_moves; dd02: error_details (both: of every call, in order)
    clobbered,  \* destinations that held a file when a move replaced them
    faulted,    \* files whose verifier call raised
    probe       \* a verifier method called on its own, outside a scan: its
                \* arguments and, once it has returned, its value

vars == <<impl, cfg, finding, pc, fs, files, nextIdx, task, pending, info, results,
          processed_since_save, partial_report, savesWritten, saveWarnings,
          original_directory,
          sepList, sepIdx, moved_files, failed_moves, clobbered, faulted,
          worker, lock, batch_of, elapsed, warned, stall_warnings, probe>>

stallVars == <<elapsed, warned, stall_warnings>>

scanVars == <<files, nextIdx, task, pending, processed_since_save,
              partial_report, savesWritten, saveWarnings, faulted,
              worker, lock, batch_of, stallVars>>

sepVars == <<sepList, sepIdx, moved_files, failed_moves, clobbered>>

\* ---------------------------------------------------------- configuration
\* dd: dest_filename after `counter` renamings (0: the source's own name).
DestName(src, counter) ==
    IF counter = 0 THEN src
    ELSE Name(src.stem \o "_" \o ToString(counter), src.suffix)

\* Quarantine paths a previous run may have left behind.
DdQuarantine(sub) == OutputDir \o <<"corrupted_files">> \o sub

DdPreExisting ==
    { {},
      {MkPath(DdQuarantine(<<"images">>), FileName(1))},
      {MkPath(DdQuarantine(<<"images">>), FileName(1)),
       MkPath(DdQuarantine(<<"images">>), DestName(FileName(1), 1))} }

Dd02PreExisting ==
    { {}, {MkPath(OutputDir \o <<"Corrupt_Files", "d1">>, FileName(1))} }

Config(threads, batch, interval, incr, mv, sub, sep, susp, dir, n, pre, libs) ==
    [THREAD_COUNT |-> threads, BATCH_SIZE |-> batch,
     SAVE_PROGRESS_INTERVAL |-> interval, ENABLE_INCREMENTAL_SAVE |-> incr,
     MOVE_CORRUPTED_FILES |-> mv, CREATE_SUBFOLDERS |-> sub,
     separate_files |-> sep, include_suspicious |-> susp,
     directory_path |-> dir, numFiles |-> n, preExisting |-> pre,
     PIL_AVAILABLE |-> libs[1], CV2_AVAILABLE |-> libs[2], ffmpeg |-> libs[3],
     root_exists |-> TRUE, odd |-> [who |-> {}, kind |-> "plain"],
     flaky_output |-> FALSE, TIMEOUT_SECONDS |-> MaxElapsed, call_again |-> FALSE]

\* Configuration c on another tree: whether the root directory exists, and
\* which files of the tree are of which kind.
WithTree(c, present, who, kind) ==
    [root_exists |-> present, odd |-> [who |-> who, kind |-> kind]] @@ c

\* Configuration c with an output directory in which writing a partial
\* report can fail.
Flaky(c) == [flaky_output |-> TRUE] @@ c

\* Configuration c with a timeout hint that a task of the run can exceed.
Hint(c, seconds) == [TIMEOUT_SECONDS |-> seconds] @@ c

\* Configuration c where the caller, after run_scan has returned, calls
\* move_corrupted_files on the detector once more.
Again(c) == [call_again |-> TRUE] @@ c

\* Which of Pillow, OpenCV and the ffmpeg binary the environment has.
AllLibs == <<TRUE, TRUE, TRUE>>

NoLibs == <<FALSE, FALSE, FALSE>>

\* Pillow and the ffmpeg binary, no OpenCV.
OnlyPillow == <<TRUE, FALSE, TRUE>>

DdEnvironments == { AllLibs, <<FALSE, TRUE, TRUE>>, <<TRUE, FALSE, TRUE>> }

Dd02Environments == DdEnvironments \cup { <<TRUE, FALSE, FALSE>> }

\* Configuration c on the trees of 1..MaxFiles files in which some files
\* are of one kind other than plain.
OddTrees(c) ==
    UNION { { WithTree([c EXCEPT !.numFiles = n], TRUE, who, kind) :
                who \in (SUBSET (1..n)) \ {{}}, kind \in Kinds \ {"plain"} } :
            n \in 1..MaxFiles }

\* damage_detector.py: Config (environment) and run_scan(directory_path, output_dir).
\* The concurrent scan with every batch size, a checkpoint at every
\* completion and separation off, where Pillow is the only decoder.
DdConcurrent ==
    { Config(t, b, 1, TRUE, FALSE, TRUE, TRUE, TRUE, <<"/", "in">>, n, {}, OnlyPillow) :
        t \in 1..MaxThreads, b \in 0..MaxBatch, n \in 1..MaxFiles }

\* The whole of run_scan on one worker with every batch size and checkpoint
\* interval, writing to an output directory where a write can fail.
DdPipeline ==
    { Flaky(Config(1, b, i, TRUE, TRUE, TRUE, TRUE, TRUE, <<"/", "in">>, n, {}, OnlyPillow)) :
        b \in 0..MaxBatch, i \in 1..MaxInterval, n \in 1..MaxFiles }

\* The separation options after a sequential, unbatched scan, and the
\* environments.
DdSeparation ==
    { Config(1, 0, 1, FALSE, mv, sub, TRUE, TRUE, <<"/", "in">>, n, pre, AllLibs) :
        mv \in BOOLEAN, sub \in BOOLEAN, n \in 1..MaxFiles, pre \in DdPreExisting }
    \cup
    { Config(1, 0, 1, FALSE, TRUE, TRUE, TRUE, TRUE, <<"/", "in">>, n, {}, libs) :
        n \in 1..MaxFiles, libs \in DdEnvironments }

\* The trees with files the candidate filter has to judge.
DdFilter ==
    OddTrees(Config(1, 0, 1, FALSE, FALSE, TRUE, TRUE, TRUE, <<"/", "in">>, 0, {}, NoLibs))

\* The root directory that does not exist.
DdMissingRoot ==
    { WithTree(Config(1, 0, 1, TRUE, TRUE, TRUE, TRUE, TRUE, <<"/", "in">>, 0, pre, AllLibs),
               FALSE, {}, "plain") : pre \in DdPreExisting }

\* The concurrent scan with a timeout hint short enough to be exceeded.
DdStall ==
    { Hint(Config(t, b, 1, FALSE, FALSE, TRUE, TRUE, TRUE, <<"/", "in">>, n, {}, NoLibs), s) :
        t \in {1, 2}, b \in 0..1, n \in 1..MaxFiles, s \in {0, MaxElapsed - 1} }

\* A sequential scan whose separation is followed by a second call of
\* move_corrupted_files.
DdSecondCall ==
    { Again(Config(1, 0, 1, FALSE, TRUE, TRUE, TRUE, TRUE, <<"/", "in">>, n, {}, OnlyPillow)) :
        n \in 1..MaxFiles }

DdConfigs ==
    DdConcurrent \cup DdPipeline \cup DdSeparation \cup DdFilter \cup DdMissingRoot
    \cup DdStall \cup DdSecondCall

\* 02-damage_detector.py: config dict and
\* run_scan(directory_path, output_dir, separate_files, include_suspicious).
\* The scan on two workers followed by separation, where videos go to ffmpeg.
Dd02Concurrent ==
    { Config(2, 0, 1, FALSE, TRUE, FALSE, TRUE, TRUE, <<"/", "in">>, n, {}, OnlyPillow) :
        n \in 1..MaxFiles }

\* The separation options after a sequential scan, the root given as a
\* relative path, and the environments.
Dd02Separation ==
    { Config(1, 0, 1, FALSE, TRUE, FALSE, sep, susp, <<"/", "in">>, n, pre, AllLibs) :
        sep \in BOOLEAN, susp \in BOOLEAN, n \in 1..MaxFiles, pre \in Dd02PreExisting }
    \cup
    { Config(1, 0, 1, FALSE, TRUE, FALSE, TRUE, TRUE, <<"in">>, n, {}, AllLibs) :
        n \in 1..MaxFiles }
    \cup
    { Config(1, 0, 1, FALSE, TRUE, FALSE, TRUE, TRUE, <<"/", "in">>, n, {}, libs) :
        n \in 1..MaxFiles, libs \in Dd02Environments }

Dd02Filter ==
    OddTrees(Config(1, 0, 1, FALSE, TRUE, FALSE, FALSE, TRUE, <<"/", "in">>, 0, {}, NoLibs))

Dd02MissingRoot ==
    { WithTree(Config(1, 0, 1, FALSE, TRUE, FALSE, TRUE, TRUE, dir, 0, pre, AllLibs),
               FALSE, {}, "plain") :
        dir \in {<<"/", "in">>, <<"in">>}, pre \in Dd02PreExisting }

Dd02Configs ==
    Dd02Concurrent \cup Dd02Separation \cup Dd02Filter \cup Dd02MissingRoot

\* Where file f of the scanned tree lies.
SourcePath(c, f) == Resolve(MkPath(FileDir(c.directory_path, f), TreeName(c, f)))

\* Content of the file system before the run.  A content is named by the
\* place the file had before the run, so every file's content is its own.
InitialFs(c) ==
    [q \in (IF c.root_exists THEN { SourcePath(c, f) : f \in 1..c.numFiles } ELSE {})
           \cup c.preExisting |-> q]

Verdicts == {"healthy", "corrupt", "suspicious", "skipped", "raise"}

\* dd02: a video is verified by running ffmpeg when OpenCV is missing.
UsesFfmpeg(c, fi) == impl = "dd02" /\ fi.is_video /\ ~c.CV2_AVAILABLE /\ c.ffmpeg

\* What the verifier of the environment can find in the content of file f:
\* a status it returns, or "raise" for an exception leaving the verifier
\* (none of the decoding calls: the verifiers catch those themselves, see
\* check_image_corruption and check_video_corruption below; what is left is
\* a failure outside their try blocks, such as a MemoryError).
\* Without the decoding library the verifier returns at once: skipped, or in
\* dd02 for a video what ffmpeg reports (skipped without ffmpeg).  A file
\* that is no candidate is never read ("none").
Findings(c, f) ==
    LET fi == get_file_info(c, f)
    IN  IF ~Accepted(fi.size, fi.extension) THEN {"none"}
        ELSE IF fi.is_image
        THEN IF c.PIL_AVAILABLE THEN {"healthy", "corrupt", "raise"} ELSE {"skipped"}
        ELSE IF c.CV2_AVAILABLE THEN {"healthy", "corrupt", "suspicious", "raise"}
             ELSE IF impl = "dd" THEN {"skipped"}
                  ELSE IF c.ffmpeg THEN {"healthy", "corrupt"}
                       ELSE {"skipped"}

\* No verifier method is being called on its own.
NoProbe == [call |-> "none"]

\* The detector after __init__, before run_scan is called on the tree.
Constructed ==
    /\ pc = "start"
    /\ fs = InitialFs(cfg)
    /\ files = <<>>
    /\ nextIdx = 1
    /\ task = [f \in FileIds |-> "idle"]
    /\ worker = [f \in FileIds |-> 0]
    /\ lock = 0
    /\ batch_of = [f \in FileIds |-> 0]
    /\ elapsed = 0
    /\ warned = {}
    /\ stall_warnings = [f \in FileIds |-> 0]
    /\ pending = {}
    /\ info = <<>>
    /\ results = <<>>
    /\ processed_since_save = 0
    /\ partial_report = <<>>
    /\ savesWritten = 0
    /\ saveWarnings = 0
    /\ original_directory = <<>>
    /\ sepList = <<>>
    /\ sepIdx = 0
    /\ moved_files = <<>>
    /\ failed_moves = <<>>
    /\ clobbered = {}
    /\ faulted = {}

Init ==
    /\ impl \in {"dd", "dd02"}
    /\ cfg \in (IF impl = "dd" THEN DdConfigs ELSE Dd02Configs)
    /\ finding \in { v \in [1..cfg.numFiles -> Verdicts \cup {"none"}] :
                       \A f \in 1..cfg.numFiles : v[f] \in Findings(cfg, f) }
    /\ Constructed
    /\ probe = NoProbe

\* ------------------------------------------------------------ enumeration
\* run_scan after scan_directory: the error return on an empty list.
\* Variant: run_scan goes on whatever scan_directory returned.
AfterScan_noCheck(found) == "process"

AfterScan(found) == IF found = <<>> THEN "error" ELSE "process"

\* scan_directory (an empty list when the root does not exist) and the test
\* of its result in run_scan.
scan_directory ==
    /\ pc = "start"
    /\ LET found == IF cfg.root_exists THEN Candidates(cfg) ELSE <<>>
       IN  /\ files' = found
           /\ info' = [f \in { found[i] : i \in 1..Len(found) } |-> get_file_info(cfg, f)]
           /\ pc' = AfterScan(found)
    /\ original_directory' =
          (IF impl = "dd02" /\ cfg.root_exists
           THEN abspath(cfg.directory_path) ELSE original_directory)
    /\ UNCHANGED <<impl, cfg, finding, probe, fs, nextIdx, task, pending, results,
                   processed_since_save, partial_report, savesWritten, saveWarnings>>
    /\ UNCHANGED <<faulted, worker, lock, batch_of, stallVars>>
    /\ UNCHANGED sepVars

\* ------------------------------------------------------------- processing
\* run_scan's batching decision (dd); dd02 always processes one batch.
BatchLen ==
    IF impl = "dd" /\ cfg.BATCH_SIZE > 0 /\ Len(files) > cfg.BATCH_SIZE
    THEN cfg.BATCH_SIZE ELSE Len(files)

Min(a, b) == IF a <= b THEN a ELSE b

\* run_scan: files[i:i + BATCH_SIZE] ends at BatchHi(i); range() steps to the
\* index after it.
\* Variant: the slice has no upper end (files[i:]).
BatchHi_openEnd(lo) == Len(files)

BatchHi(lo) == Min(lo + BatchLen - 1, Len(files))

\* Variant: the next batch starts at the last index of this one.
NextBatchStart_overlap(hi) == hi

NextBatchStart(hi) == hi + 1

\* Number of process_files calls run_scan has made.
CallsSoFar ==
    IF \A f \in FileIds : batch_of[f] = 0 THEN 0
    ELSE CHOOSE k \in 1..MaxFiles :
           /\ \E f \in FileIds : batch_of[f] = k
           /\ \A f \in FileIds : batch_of[f] <= k

\* process_files, up to the end of the submissions.
process_files_submit ==
    /\ pc = "process"
    /\ pending = {}
    /\ nextIdx <= Len(files)
    /\ LET hi    == BatchHi(nextIdx)
           batch == { files[i] : i \in nextIdx..hi }
       IN  /\ task' = [f \in FileIds |-> IF f \in batch THEN "queued" ELSE task[f]]
           /\ pending' = batch
           /\ nextIdx' = NextBatchStart(hi)
           /\ batch_of' = [f \in FileIds |->
                             IF f \in batch THEN CallsSoFar + 1 ELSE batch_of[f]]
    /\ processed_since_save' = 0
    /\ elapsed' = 0
    /\ warned' = {}
    /\ UNCHANGED <<impl, cfg, finding, probe, pc, fs, files, info, results, partial_report,
                   savesWritten, saveWarnings, original_directory>>
    /\ UNCHANGED <<faulted, worker, lock, stall_warnings>>
    /\ UNCHANGED sepVars

Executing == { f \in FileIds : task[f] \in {"running", "verified", "appending"} }

\* The workers of ThreadPoolExecutor(max_workers) that wait for a task.
\* Variant: the pool is one worker short.
IdleWorkers_oneShort(max_workers, busy) == (1..(max_workers - 1)) \ busy

\* Variant: a worker takes a task while it is still executing one.
IdleWorkers_reentrant(max_workers, busy) == 1..max_workers

IdleWorkers(max_workers, busy) == (1..max_workers) \ busy

Busy == { worker[f] : f \in Executing }

\* A pool worker takes the oldest queued task.
worker_start(f) ==
    /\ task[f] = "queued"
    /\ \A g \in FileIds : task[g] = "queued" => f <= g
    /\ \E w \in IdleWorkers(cfg.THREAD_COUNT, Busy) :
          worker' = [worker EXCEPT ![f] = w]
    /\ task' = [task EXCEPT ![f] = "running"]
    /\ UNCHANGED <<impl, cfg, finding, probe, pc, fs, files, nextIdx, pending, info, results,
                   processed_since_save, partial_report, savesWritten, saveWarnings,
                   original_directory>>
    /\ UNCHANGED <<faulted, lock, batch_of, stallVars>>
    /\ UNCHANGED sepVars

\* check_file_corruption hands its own file_info to the verifier.
\* Variant: the file under verification is kept in a place all workers
\* share, so a verifier reads the file of the worker that started last.
Subject_shared(f, running) == CHOOSE g \in running : \A h \in running : h <= g

Subject(f, running) == f

\* What check_image_corruption / check_video_corruption can give for a file
\* on whose content the verifier finds `found`: that, or in the ffmpeg run
\* suspicious when the run exceeds its timeout.
Outcomes(fi, found) ==
    IF UsesFfmpeg(cfg, fi) THEN {found, "suspicious"} ELSE {found}

ExcText == "fault"

\* Variant: the except branch does not assign the status.
SetStatus_keepUnknown(fi, o) ==
    IF o = "raise" THEN [fi EXCEPT !.error_message = ExcText]
    ELSE [fi EXCEPT !.corruption_status = o]

\* Variant: the except branch does not store the exception text.
SetStatus_noMessage(fi, o) ==
    IF o = "raise" THEN [fi EXCEPT !.corruption_status = "error"]
    ELSE [fi EXCEPT !.corruption_status = o]

\* check_file_corruption up to the status assignment (both branches).
SetStatus(fi, o) ==
    IF o = "raise"
    THEN [fi EXCEPT !.corruption_status = "error", !.error_message = ExcText]
    ELSE [fi EXCEPT !.corruption_status = o]

check_file_corruption_verify(f) ==
    /\ task[f] = "running"
    /\ info[f].is_image \/ info[f].is_video
    /\ \E o \in Outcomes(info[f], finding[Subject(f, Executing)]) :
          /\ info' = [info EXCEPT ![f] = SetStatus(info[f], o)]
          /\ faulted' = IF o = "raise" THEN faulted \cup {f} ELSE faulted
    /\ task' = [task EXCEPT ![f] = "verified"]
    /\ UNCHANGED <<impl, cfg, finding, probe, pc, fs, files, nextIdx, pending, results,
                   processed_since_save, partial_report, savesWritten, saveWarnings,
                   original_directory>>
    /\ UNCHANGED <<worker, lock, batch_of, stallVars>>
    /\ UNCHANGED sepVars

\* Whether check_file_corruption appends inside "with self.lock": dd does,
\* dd02 has no lock and calls self.results.append directly.
UsesLock == impl = "dd"

\* dd, "with self.lock": the task acquires the lock when it is free and
\* waits otherwise.
check_file_corruption_lock(f) ==
    /\ UsesLock
    /\ task[f] = "verified"
    /\ lock = 0
    /\ lock' = f
    /\ task' = [task EXCEPT ![f] = "appending"]
    /\ UNCHANGED <<impl, cfg, finding, probe, pc, fs, files, nextIdx, pending, info, results,
                   processed_since_save, partial_report, savesWritten, saveWarnings,
                   original_directory>>
    /\ UNCHANGED <<faulted, worker, batch_of, stallVars>>
    /\ UNCHANGED sepVars

\* check_file_corruption: self.results.append (list.append is one atomic
\* call of the interpreter), in dd followed by the release of self.lock;
\* the future is done when the call returns.
\* Variant: the except branch does not append.
AppendResult_skipError(res, f, fi) ==
    IF fi.corruption_status = "error" THEN res ELSE Append(res, f)

AppendResult(res, f, fi) == Append(res, f)

check_file_corruption_append(f) ==
    /\ IF UsesLock THEN task[f] = "appending" /\ lock = f ELSE task[f] = "verified"
    /\ results' = AppendResult(results, f, info[f])
    /\ lock' = 0
    /\ task' = [task EXCEPT ![f] = "done"]
    /\ worker' = [worker EXCEPT ![f] = 0]
    /\ UNCHANGED <<impl, cfg, finding, probe, pc, fs, files, nextIdx, pending, info,
                   processed_since_save, partial_report, savesWritten, saveWarnings,
                   original_directory>>
    /\ UNCHANGED <<faulted, batch_of, stallVars>>
    /\ UNCHANGED sepVars

\* Variant: the partial report holds only the newest record.
Snapshot_newestOnly(res, inf) ==
    [i \in 1..Min(1, Len(res)) |->
        [id |-> res[Len(res)], status |-> inf[res[Len(res)]].corruption_status]]

\* Variant: the partial report leaves out the newest record.
Snapshot_withoutNewest(res, inf) ==
    [i \in 1..(Len(res) - 1) |-> [id |-> res[i], status |-> inf[res[i]].corruption_status]]

\* The partial report: asdict of every record of self.results.
Snapshot(res, inf) ==
    [i \in 1..Len(res) |-> [id |-> res[i], status |-> inf[res[i]].corruption_status]]

\* Whether open / json.dump succeeds: it can raise where the output
\* directory is flaky.
WriteResults == IF cfg.flaky_output THEN BOOLEAN ELSE {TRUE}

\* process_files: the test before a partial report is written.
\* Variant: a report is due only when the counter is at the interval.
SaveDue_atIntervalOnly(n) ==
    impl = "dd" /\ cfg.ENABLE_INCREMENTAL_SAVE /\ n = cfg.SAVE_PROGRESS_INTERVAL

SaveDue(n) ==
    impl = "dd" /\ cfg.ENABLE_INCREMENTAL_SAVE /\ n >= cfg.SAVE_PROGRESS_INTERVAL

\* process_files: the body of "for future in done" for one future, and the
\* end of process_files / of run_scan's batch loop when it was the last one.
process_files_done(f) ==
    /\ pc = "process"
    /\ f \in pending
    /\ task[f] = "done"
    /\ pending' = pending \ {f}
    /\ IF SaveDue(processed_since_save + 1)
       THEN \E written \in WriteResults :
              IF written
              THEN /\ partial_report' = Snapshot(results, info)
                   /\ savesWritten' = savesWritten + 1
                   /\ processed_since_save' = 0
                   /\ saveWarnings' = saveWarnings
              ELSE /\ processed_since_save' = processed_since_save + 1
                   /\ saveWarnings' = saveWarnings + 1
                   /\ UNCHANGED <<partial_report, savesWritten>>
       ELSE /\ processed_since_save' = processed_since_save + 1
            /\ UNCHANGED <<partial_report, savesWritten, saveWarnings>>
    /\ pc' = IF pending' = {} /\ nextIdx > Len(files) THEN "report" ELSE pc
    /\ UNCHANGED <<impl, cfg, finding, probe, fs, files, nextIdx, task, info, results,
                   original_directory>>
    /\ UNCHANGED <<faulted, worker, lock, batch_of, stallVars>>
    /\ UNCHANGED sepVars

\* Time passes while process_files waits.  Only the comparison with
\* TIMEOUT_SECONDS reads the clock, so it is followed up to the first value
\* above the hint; a hint of MaxElapsed or more is not exceeded within a run.
time_passes ==
    /\ pc = "process"
    /\ pending # {}
    /\ cfg.TIMEOUT_SECONDS < MaxElapsed
    /\ elapsed <= cfg.TIMEOUT_SECONDS
    /\ elapsed' = elapsed + 1
    /\ UNCHANGED <<impl, cfg, finding, probe, pc, fs, files, nextIdx, task, pending, info,
                   results, processed_since_save, partial_report, savesWritten,
                   saveWarnings, original_directory>>
    /\ UNCHANGED <<faulted, worker, lock, batch_of, warned, stall_warnings>>
    /\ UNCHANGED sepVars

\* process_files: the test before a stall warning.
\* Variant: the warned set is not consulted.
ShouldWarn_repeat(f, since, timeout, warnedSet) == since > timeout

\* Variant: the warning comes as soon as the hint is reached.
ShouldWarn_atTimeout(f, since, timeout, warnedSet) ==
    since >= timeout /\ f \notin warnedSet

ShouldWarn(f, since, timeout, warnedSet) == since > timeout /\ f \notin warnedSet

\* process_files (dd): the body of "for future in list(pending)" for one
\* future.
process_files_watch(f) ==
    /\ pc = "process"
    /\ impl = "dd"
    /\ f \in pending
    /\ ShouldWarn(f, elapsed, cfg.TIMEOUT_SECONDS, warned)
    /\ warned' = warned \cup {f}
    /\ stall_warnings' = [stall_warnings EXCEPT ![f] = @ + 1]
    /\ UNCHANGED <<impl, cfg, finding, probe, pc, fs, files, nextIdx, task, pending, info,
                   results, processed_since_save, partial_report, savesWritten,
                   saveWarnings, original_directory>>
    /\ UNCHANGED <<faulted, worker, lock, batch_of, elapsed>>
    /\ UNCHANGED sepVars

\* generate_report reads self.results and writes the report files.
generate_report ==
    /\ pc = "report"
    /\ pc' = "separate"
    /\ UNCHANGED <<impl, cfg, finding, probe, fs, info, results, original_directory>>
    /\ UNCHANGED scanVars
    /\ UNCHANGED sepVars

\* ------------------------------------------------------------- separation
\* dd, move_corrupted_files: the records it selects.
Eligible(fi) == fi.corruption_status \in {"corrupt", "suspicious"}

\* dd: the "while os.path.exists(dest_path)" loop.
RECURSIVE FreeDest(_, _, _, _)
FreeDest(fsys, folder, src, counter) ==
    IF exists(fsys, MkPath(folder, DestName(src, counter)))
    THEN FreeDest(fsys, folder, src, counter + 1)
    ELSE MkPath(folder, DestName(src, counter))

DestFolder(fi) ==
    IF cfg.CREATE_SUBFOLDERS
    THEN DdQuarantine(IF fi.is_image THEN <<"images">>
                      ELSE IF fi.is_video THEN <<"videos">> ELSE <<"others">>)
    ELSE DdQuarantine(<<>>)

\* Both separation loops go on to the next record whether or not the move
\* raised; after the last record the separation returns.
AfterMove_abortOnFailure(i, n, moveOk) ==
    IF i = n \/ ~moveOk THEN "done" ELSE "moving"

AfterMove(i, n, moveOk) == IF i = n THEN "done" ELSE "moving"

Clobber(fsys, dst) == IF exists(fsys, dst) THEN {Resolve(dst)} ELSE {}

\* The position of run_scan's caller inside its own, second call of
\* move_corrupted_files.
PcOfCall(second, position) == IF second THEN position \o "_again" ELSE position

\* move_corrupted_files up to its loop: called by run_scan, and once more
\* by the caller of run_scan where the configuration says so.
move_corrupted_files_begin ==
    /\ pc = "separate" \/ (pc = "done" /\ cfg.call_again)
    /\ impl = "dd"
    /\ LET corrupted_files == SelectSeq(results, LAMBDA f : Eligible(info[f]))
       IN  IF cfg.MOVE_CORRUPTED_FILES /\ corrupted_files # <<>>
           THEN /\ sepList' = corrupted_files
                /\ sepIdx' = 1
                /\ pc' = PcOfCall(pc = "done", "moving")
           ELSE /\ pc' = PcOfCall(pc = "done", "done")
                /\ UNCHANGED <<sepList, sepIdx>>
    /\ UNCHANGED <<impl, cfg, finding, probe, fs, info, results, original_directory,
                   moved_files, failed_moves, clobbered>>
    /\ UNCHANGED scanVars

\* dd: one iteration of "for file_info in corrupted_files"; `ok` is whether
\* the operating system carries out makedirs and the move.
move_corrupted_files_step ==
    /\ pc \in {"moving", "moving_again"}
    /\ impl = "dd"
    /\ LET f    == sepList[sepIdx]
           fi   == info[f]
           dest == FreeDest(fs, DestFolder(fi), fi.path.name, 0)
       IN  \E ok \in BOOLEAN :
             LET moveOk == ok /\ exists(fs, fi.path)
             IN  /\ IF moveOk
                    THEN /\ fs' = shutil_move(fs, fi.path, dest)
                         /\ clobbered' = clobbered \cup Clobber(fs, dest)
                         /\ info' = [info EXCEPT ![f].path = dest, ![f].name = dest.name]
                         /\ moved_files' = Append(moved_files,
                               [file |-> f, original_path |-> fi.path, new_path |-> dest,
                                status |-> fi.corruption_status])
                         /\ UNCHANGED failed_moves
                    ELSE /\ failed_moves' = Append(failed_moves, [file |-> f])
                         /\ UNCHANGED <<fs, clobbered, info, moved_files>>
                 /\ pc' = PcOfCall(pc = "moving_again", AfterMove(sepIdx, Len(sepList), moveOk))
    /\ sepIdx' = sepIdx + 1
    /\ UNCHANGED <<impl, cfg, finding, probe, results, original_directory, sepList>>
    /\ UNCHANGED scanVars

\* Variant: suspicious records are sent whatever include_suspicious says.
TargetBase_ignoreFlag(fi, include_suspicious) ==
    IF fi.corruption_status = "corrupt" THEN OutputDir \o <<"Corrupt_Files">>
    ELSE IF fi.corruption_status = "suspicious"
         THEN OutputDir \o <<"Suspicious_Files">>
         ELSE <<>>

\* dd02: where separate_corrupt_files sends a record (<<>>: nowhere).
TargetBase(fi, include_suspicious) ==
    IF fi.corruption_status = "corrupt" THEN OutputDir \o <<"Corrupt_Files">>
    ELSE IF fi.corruption_status = "suspicious" /\ include_suspicious
         THEN OutputDir \o <<"Suspicious_Files">>
         ELSE <<>>

\* dd02, _move_file_with_structure: source_file.relative_to(original_base),
\* the bare name on ValueError.
relative_path(source, original_base) ==
    IF IsPrefix(original_base, source.dir)
    THEN MkPath(SubSeq(source.dir, Len(original_base) + 1, Len(source.dir)), source.name)
    ELSE MkPath(<<>>, source.name)

target_path(source, original_base, target_base) ==
    LET rel == relative_path(source, original_base)
    IN  MkPath(target_base \o rel.dir, rel.name)

separate_corrupt_files_begin ==
    /\ pc = "separate"
    /\ impl = "dd02"
    /\ IF cfg.separate_files /\ original_directory # <<>>
       THEN /\ sepList' = results
            /\ sepIdx' = 1
            /\ pc' = "moving"
       ELSE /\ pc' = "done"
            /\ UNCHANGED <<sepList, sepIdx>>
    /\ UNCHANGED <<impl, cfg, finding, probe, fs, info, results, original_directory,
                   moved_files, failed_moves, clobbered>>
    /\ UNCHANGED scanVars

\* dd02: one iteration of "for file_info in self.results".
separate_corrupt_files_step ==
    /\ pc = "moving"
    /\ impl = "dd02"
    /\ LET f    == sepList[sepIdx]
           fi   == info[f]
           base == TargetBase(fi, cfg.include_suspicious)
           dest == target_path(fi.path, original_directory, base)
       IN  IF base = <<>>
           THEN /\ pc' = AfterMove(sepIdx, Len(sepList), TRUE)
                /\ UNCHANGED <<fs, clobbered, moved_files, failed_moves>>
           ELSE \E ok \in BOOLEAN :
                  LET moveOk == ok /\ exists(fs, fi.path)
                  IN  /\ IF moveOk
                         THEN /\ fs' = shutil_move(fs, fi.path, dest)
                              /\ clobbered' = clobbered \cup Clobber(fs, dest)
                              /\ moved_files' = Append(moved_files,
                                    [file |-> f, original_path |-> fi.path, new_path |-> dest,
                                     status |-> fi.corruption_status])
                              /\ UNCHANGED failed_moves
                         ELSE /\ failed_moves' = Append(failed_moves, [file |-> f])
                              /\ UNCHANGED <<fs, clobbered, moved_files>>
                      /\ pc' = AfterMove(sepIdx, Len(sepList), moveOk)
    /\ sepIdx' = sepIdx + 1
    /\ UNCHANGED <<impl, cfg, finding, probe, info, results, original_directory, sepList>>
    /\ UNCHANGED scanVars

\* ---------------------------------------------------------- specification
Next ==
    \/ scan_directory
    \/ process_files_submit
    \/ \E f \in FileIds : worker_start(f)
    \/ \E f \in FileIds : check_file_corruption_verify(f)
    \/ \E f \in FileIds : check_file_corruption_lock(f)
    \/ \E f \in FileIds : check_file_corruption_append(f)
    \/ \E f \in FileIds : process_files_done(f)
    \/ time_passes
    \/ \E f \in FileIds : process_files_watch(f)
    \/ generate_report
    \/ move_corrupted_files_begin
    \/ move_corrupted_files_step
    \/ separate_corrupt_files_begin
    \/ separate_corrupt_files_step

Spec == Init /\ [][Next]_vars

\* The steps of the thread that called run_scan, and those of the pool's
\* worker threads.
MainThread ==
    \/ scan_directory
    \/ process_files_submit
    \/ \E f \in FileIds : process_files_done(f)
    \/ generate_report
    \/ move_corrupted_files_begin
    \/ move_corrupted_files_step
    \/ separate_corrupt_files_begin
    \/ separate_corrupt_files_step

WorkerThreads ==
    \/ \E f \in FileIds : worker_start(f)
    \/ \E f \in FileIds : check_file_corruption_verify(f)
    \/ \E f \in FileIds : check_file_corruption_lock(f)
    \/ \E f \in FileIds : check_file_corruption_append(f)

\* The runs followed to their end: the pooled scans of both programs, with
\* batches, checkpoints, stall warnings and the separation that follows.
LiveConfigs ==
    DdPipeline \cup DdStall \cup DdMissingRoot \cup DdSecondCall
    \cup Dd02Concurrent \cup Dd02MissingRoot

LiveInit == Init /\ cfg \in LiveConfigs

\* Fair scheduling: the main thread and the workers are not held up for
\* ever while they can take a step, and a verifier call returns.
LiveSpec ==
    LiveInit /\ [][Next]_vars /\ WF_vars(MainThread) /\ WF_vars(WorkerThreads)

\* ------------------------------------------------- the verifier methods
\* The run of the scan leaves the probe alone, and a method called on its
\* own leaves the scan alone.
scanState ==
    <<impl, cfg, finding, pc, fs, info, results, original_directory, scanVars, sepVars>>

Max(a, b) == IF a >= b THEN a ELSE b

\* A file on disk as _check_image_trailer reads it: its length in bytes and
\* one run of bytes at an offset, every other byte being 0; openable says
\* whether open(path, "rb") succeeds.
File(size, at, bytes, openable) ==
    [size |-> size, at |-> at, bytes |-> bytes, openable |-> openable]

ByteAt(file, i) ==
    IF file.at <= i /\ i < file.at + Len(file.bytes)
    THEN file.bytes[i - file.at + 1] ELSE 0

\* f.seek(start); tail = f.read(size - start); marker in tail.  No marker
\* holds a 0 byte, so an occurrence starts inside the run of bytes.
InTail(marker, file, start) ==
    \E p \in file.at..(file.at + Len(file.bytes) - 1) :
      /\ p >= start
      /\ p + Len(marker) <= file.size
      /\ \A j \in 1..Len(marker) : ByteAt(file, p + j - 1) = marker[j]

JPEG_EOI == <<255, 217>>

PNG_IEND == <<73, 69, 78, 68>>

GIF_TRAILER == <<59>>

\* search_window of the three branches, and the least file_size each accepts.
JPEG_WINDOW == 64 * 1024

PNG_WINDOW == 64 * 1024

GIF_WINDOW == 16 * 1024

JPEG_MIN_SIZE == 2

PNG_MIN_SIZE == 12

GIF_MIN_SIZE == 1

\* start = max(0, file_size - search_window).
\* Variant: the tail is read from the start of the file.
TailStart_wholeFile(file_size, search_window) == 0

TailStart(file_size, search_window) == Max(0, file_size - search_window)

\* One branch of _check_image_trailer; an exception of open or of the reads
\* goes to "except Exception".
TrailerBranch(file, marker, window, least, missing) ==
    IF ~file.openable THEN [ok |-> FALSE, reason |-> "trailer check failed"]
    ELSE IF file.size < least THEN [ok |-> FALSE, reason |-> "file too small"]
    ELSE IF ~InTail(marker, file, TailStart(file.size, window))
         THEN [ok |-> FALSE, reason |-> missing]
         ELSE [ok |-> TRUE, reason |-> ""]

_check_image_trailer(file, extension) ==
    LET ext == lower(extension)
    IN  IF ext \in {".jpg", ".jpeg"}
        THEN TrailerBranch(file, JPEG_EOI, JPEG_WINDOW, JPEG_MIN_SIZE, "JPEG end (FFD9) not found")
        ELSE IF ext = ".png"
        THEN TrailerBranch(file, PNG_IEND, PNG_WINDOW, PNG_MIN_SIZE, "PNG end (IEND) missing")
        ELSE IF ext = ".gif"
        THEN TrailerBranch(file, GIF_TRAILER, GIF_WINDOW, GIF_MIN_SIZE, "GIF end (;) not found")
        ELSE [ok |-> TRUE, reason |-> ""]

\* The files and suffixes the method is tried on: lengths around the least
\* sizes and around the two windows, runs of bytes that hold a marker, part
\* of one or none, at offsets around the start of the tail and at the end.
FileSizes ==
    {0, 1, 2, 3, 4, 11, 12, 13, GIF_WINDOW, GIF_WINDOW + 1, JPEG_WINDOW,
     JPEG_WINDOW + 1, JPEG_WINDOW + 4, 2 * JPEG_WINDOW}

ByteRuns ==
    {<<>>, JPEG_EOI, <<255>>, <<217, 255>>, <<255, 0, 217>>, PNG_IEND, <<73, 69, 78>>,
     PNG_IEND \o <<174, 66>>, GIF_TRAILER, <<58>>}

Offsets(size, n) ==
    { a \in {0, 1, size - GIF_WINDOW - 1, size - GIF_WINDOW, size - JPEG_WINDOW - 2,
             size - JPEG_WINDOW - 1, size - JPEG_WINDOW, size - n} :
        a >= 0 /\ a + n <= size }

Files ==
    UNION { { File(size, at, bytes, TRUE) : at \in Offsets(size, Len(bytes)) } :
            size \in FileSizes, bytes \in ByteRuns }
    \cup { File(JPEG_WINDOW, 0, JPEG_EOI, FALSE) }

Suffixes == {".jpg", ".jpeg", ".png", ".gif", ".bmp", ".JPG", ".PNG", ".mp4"}

Call(name, args) == [call |-> name, args |-> args, returned |-> FALSE]

Return(value) == [call |-> probe.call, args |-> probe.args, returned |-> TRUE, value |-> value]

Called(name) == probe.call = name /\ ~probe.returned

Returned(name) == probe.call = name /\ probe.returned

TrailerCalls ==
    { Call("_check_image_trailer", [file |-> file, extension |-> x]) :
        file \in Files, x \in Suffixes }

check_image_trailer_call ==
    /\ Called("_check_image_trailer")
    /\ probe' = Return(_check_image_trailer(probe.args.file, probe.args.extension))
    /\ UNCHANGED scanState

\* An exception a library call raises: its class and its text.
Exc(class, text) == [class |-> class, text |-> text]

\* isinstance: UnidentifiedImageError is a subclass of OSError, every class
\* here one of Exception.
IsInstance(e, class) ==
    \/ class = "Exception"
    \/ e.class = class
    \/ class = "OSError" /\ e.class = "UnidentifiedImageError"

\* `phrase in str(e).lower()`.
Mentions(e, phrase) ==
    CASE phrase = "truncat" ->
           e.text \in {"image file is truncated (8 bytes not processed)",
                       "Truncated File Read", "Truncated IHDR chunk"}
      [] phrase = "broken data stream" ->
           e.text = "broken data stream when reading image file"
      [] phrase = "cannot identify image file" ->
           e.text = "cannot identify image file"
      [] OTHER -> FALSE

Verdict(status, details) == [status |-> status, details |-> details]

\* The except clauses of check_image_corruption, in their order.
ImageHandlers(e) ==
    IF IsInstance(e, "UnidentifiedImageError")
    THEN Verdict("corrupt", "format not recognized")
    ELSE IF IsInstance(e, "OSError")
    THEN IF Mentions(e, "truncat") THEN Verdict("corrupt", "image truncated")
         ELSE IF Mentions(e, "broken data stream")
                 \/ Mentions(e, "cannot identify image file")
              THEN Verdict("corrupt", "image data broken")
              ELSE Verdict("corrupt", "image check error: " \o e.text)
    ELSE Verdict("corrupt", "image check error: " \o e.text)

\* The calls inside "with Image.open(...)", in their order.
ImageStages == <<"open", "verify", "reopen", "convert", "tobytes">>

\* check_image_corruption after the decode: the size test, then the trailer.
\* Variant: the trailer is tested before the size.
AfterDecode_trailerFirst(img) ==
    LET trailer == _check_image_trailer(img.file, img.extension)
    IN  IF ~trailer.ok THEN Verdict("corrupt", trailer.reason)
        ELSE IF img.width <= 0 \/ img.height <= 0
             THEN Verdict("corrupt", "invalid image dimensions")
             ELSE Verdict("healthy", "image is healthy")

AfterDecode(img) ==
    IF img.width <= 0 \/ img.height <= 0
    THEN Verdict("corrupt", "invalid image dimensions")
    ELSE LET trailer == _check_image_trailer(img.file, img.extension)
         IN  IF ~trailer.ok THEN Verdict("corrupt", trailer.reason)
             ELSE Verdict("healthy", "image is healthy")

\* An image as Pillow sees it: the stage at which a call raises ("none":
\* no call does) and what it raises, the size Pillow reports, and the file.
Picture(stage, raised, width, height, file, extension) ==
    [stage |-> stage, raised |-> raised, width |-> width, height |-> height,
     file |-> file, extension |-> extension]

check_image_corruption(c, img) ==
    IF ~c.PIL_AVAILABLE THEN Verdict("skipped", "Pillow is not installed")
    ELSE IF \E i \in 1..Len(ImageStages) : ImageStages[i] = img.stage
         THEN ImageHandlers(img.raised)
         ELSE AfterDecode(img)

\* What Pillow raises.
ImageExceptions ==
    { Exc("UnidentifiedImageError", "cannot identify image file"),
      Exc("OSError", "image file is truncated (8 bytes not processed)"),
      Exc("OSError", "Truncated File Read"),
      Exc("OSError", "broken data stream when reading image file"),
      Exc("OSError", "unrecognized data stream contents when reading image file"),
      Exc("ValueError", "Truncated IHDR chunk"),
      Exc("SyntaxError", "broken PNG file"),
      Exc("DecompressionBombError", "Image size exceeds limit") }

NoExc == Exc("none", "")

ImageFiles ==
    { File(JPEG_WINDOW + 4, JPEG_WINDOW + 2, JPEG_EOI, TRUE),
      File(JPEG_WINDOW + 4, JPEG_WINDOW - 2, PNG_IEND \o <<174, 66>>, TRUE),
      File(JPEG_WINDOW + 4, 0, JPEG_EOI, TRUE),
      File(JPEG_WINDOW + 4, 0, <<>>, TRUE),
      File(JPEG_WINDOW, 0, JPEG_EOI, FALSE) }

Pictures ==
    { Picture(stage, raised, w, h, file, x) :
        stage \in {"none"}, raised \in {NoExc}, w \in {0, 640}, h \in {0, 480},
        file \in ImageFiles, x \in {".jpg", ".png", ".bmp"} }
    \cup
    { Picture(ImageStages[i], raised, w, 480, file, ".jpg") :
        i \in 1..Len(ImageStages), raised \in ImageExceptions, w \in {0, 640},
        file \in ImageFiles }

ImageCalls == { Call("check_image_corruption", [file_info |-> img]) : img \in Pictures }

check_image_corruption_call ==
    /\ Called("check_image_corruption")
    /\ probe' = Return(check_image_corruption(cfg, probe.args.file_info))
    /\ UNCHANGED scanState

\* A video as OpenCV sees it: the call that raises ("none": no call does),
\* whether the container opens, the properties cap.get reports, and the
\* number of frames cap.read gives before its first failure.
Video(stage, opens, frame_count, fps, width, height, decodable, size) ==
    [stage |-> stage, opens |-> opens, frame_count |-> frame_count, fps |-> fps,
     width |-> width, height |-> height, decodable |-> decodable, size |-> size]

\* The OpenCV calls of check_video_corruption, in their order; an exception
\* of cap.release is swallowed in the finally clause.
VideoStages == <<"VideoCapture", "isOpened", "get", "read">>

\* Variant: ten frames are sampled whatever the frame count.
max_frames_to_check_always10(frame_count) == 10

max_frames_to_check(frame_count) ==
    IF frame_count <= 0 THEN 10 ELSE Min(10, frame_count)

\* The sampling loop: the number of frames read, the loop leaving at the
\* first cap.read that gives no frame.
frames_read(vid) == Min(vid.decodable, max_frames_to_check(vid.frame_count))

\* Number of cap.read calls the loop makes.
read_calls(vid) ==
    IF vid.decodable < max_frames_to_check(vid.frame_count)
    THEN vid.decodable + 1 ELSE max_frames_to_check(vid.frame_count)

\* dd only: bytes_per_second = size / (frame_count / fps) < 1000, tested
\* when frame_count and fps are positive.
LowBitrate(vid) ==
    /\ impl = "dd"
    /\ vid.frame_count > 0 /\ vid.fps > 0
    /\ vid.size * vid.fps < 1000 * vid.frame_count

VideoVerdict(status, details, reads) ==
    [status |-> status, details |-> details, reads |-> reads]

\* check_video_corruption, "except Exception as e".
\* Variant: there is no except clause, the exception leaves the verifier.
VideoHandlers_propagate(stage) == VideoVerdict("raise", stage, 0)

VideoHandlers(stage) == VideoVerdict("corrupt", "video check error", 0)

\* check_video_corruption with OpenCV.
check_video_with_cv2(vid) ==
    IF \E i \in 1..Len(VideoStages) : VideoStages[i] = vid.stage
    THEN VideoHandlers(vid.stage)
    ELSE IF ~vid.opens THEN VideoVerdict("corrupt", "video did not open", 0)
    ELSE IF vid.width <= 0 \/ vid.height <= 0
    THEN VideoVerdict("corrupt", "invalid video dimensions", 0)
    ELSE IF frames_read(vid) = 0
    THEN VideoVerdict("corrupt", "no frame was read", read_calls(vid))
    ELSE IF vid.frame_count > 0
            /\ 2 * frames_read(vid) < max_frames_to_check(vid.frame_count)
    THEN VideoVerdict("suspicious", "many frames unreadable", read_calls(vid))
    ELSE IF LowBitrate(vid)
    THEN VideoVerdict("suspicious", "low bitrate", read_calls(vid))
    ELSE VideoVerdict("healthy", "video is healthy", read_calls(vid))

\* subprocess.run(cmd, timeout): what running ffmpeg on the file comes to.
\* The binary may be missing, the start may fail otherwise, and the run
\* needs some seconds and writes its diagnostics to stderr.
Tool(startable, needs, stderr) ==
    [startable |-> startable, needs |-> needs, stderr |-> stderr]

subprocess_run(c, tool, timeout) ==
    IF ~c.ffmpeg THEN [raised |-> "FileNotFoundError"]
    ELSE IF ~tool.startable THEN [raised |-> "PermissionError"]
    ELSE IF tool.needs > timeout THEN [raised |-> "TimeoutExpired"]
    ELSE [raised |-> "none", stderr |-> tool.stderr]

\* dd02, _check_video_with_ffmpeg.
check_video_with_ffmpeg(c, tool) ==
    LET result == subprocess_run(c, tool, c.TIMEOUT_SECONDS)
    IN  CASE result.raised = "none" ->
               IF result.stderr # ""
               THEN VideoVerdict("corrupt", "ffmpeg error: " \o result.stderr, 0)
               ELSE VideoVerdict("healthy", "video is healthy (ffmpeg)", 0)
          [] result.raised = "TimeoutExpired" ->
               VideoVerdict("suspicious", "timeout", 0)
          [] result.raised = "FileNotFoundError" ->
               VideoVerdict("skipped", "ffmpeg is not installed", 0)
          [] OTHER ->
               VideoVerdict("corrupt", "ffmpeg check error", 0)

\* check_video_corruption: without OpenCV dd returns skipped and dd02 goes
\* to ffmpeg.
check_video_corruption(c, vid, tool) ==
    IF ~c.CV2_AVAILABLE
    THEN IF impl = "dd" THEN VideoVerdict("skipped", "OpenCV is not installed", 0)
         ELSE check_video_with_ffmpeg(c, tool)
    ELSE check_video_with_cv2(vid)

FrameCounts == {-1, 0, 1, 3, 10, 25}

Videos ==
    { Video("none", TRUE, n, fps, 640, 480, d, size) :
        n \in FrameCounts, fps \in {0, 25}, d \in {0, 1, 2, 4, 5, 10}, size \in {100, 5000} }
    \cup
    { Video("none", opens, 10, 25, w, h, d, 5000) :
        opens \in BOOLEAN, w \in {0, 640}, h \in {0, 480}, d \in {0, 10} }
    \cup
    { Video(stage, TRUE, 10, 25, 640, 480, 10, 5000) :
        stage \in { VideoStages[i] : i \in 1..Len(VideoStages) } \cup {"release"} }

Tools ==
    { Tool(startable, needs, stderr) :
        startable \in BOOLEAN, needs \in 0..(MaxElapsed + 1), stderr \in {"", "moov atom not found"} }

SoundVideo == Video("none", TRUE, 10, 25, 640, 480, 10, 5000)

QuietTool == Tool(TRUE, 0, "")

\* With OpenCV the tool is not run, without it the video is not decoded.
VideoCalls ==
    { Call("check_video_corruption", [file_info |-> vid, tool |-> QuietTool]) :
        vid \in Videos }

FfmpegCalls ==
    { Call("check_video_corruption", [file_info |-> SoundVideo, tool |-> tool]) :
        tool \in Tools }

check_video_corruption_call ==
    /\ Called("check_video_corruption")
    /\ probe' = Return(check_video_corruption(cfg, probe.args.file_info, probe.args.tool))
    /\ UNCHANGED scanState

\* A FileInfo as get_file_info makes it, with what the libraries will find
\* in the file.
NewFileInfo(is_image, is_video, media) ==
    [is_image |-> is_image, is_video |-> is_video, media |-> media,
     corruption_status |-> "unknown", error_message |-> ""]

\* check_file_corruption on one FileInfo: the verifier of its type, then
\* the status assignment of the try or of the except branch.
check_file_corruption(c, fi, tool) ==
    IF fi.is_image
    THEN SetStatus(fi, check_image_corruption(c, fi.media).status)
    ELSE IF fi.is_video
    THEN SetStatus(fi, check_video_corruption(c, fi.media, tool).status)
    ELSE fi

FileCalls ==
    { Call("check_file_corruption",
           [file_info |-> NewFileInfo(TRUE, FALSE, img), tool |-> QuietTool]) :
        img \in Pictures }
    \cup
    { Call("check_file_corruption",
           [file_info |-> NewFileInfo(FALSE, TRUE, vid), tool |-> QuietTool]) :
        vid \in Videos }

check_file_corruption_call ==
    /\ Called("check_file_corruption")
    /\ probe' = Return(check_file_corruption(cfg, probe.args.file_info, probe.args.tool))
    /\ UNCHANGED scanState

\* The environment of a method called on its own: which libraries there are.
ProbeConfig(libs) ==
    Config(1, 0, 1, FALSE, FALSE, TRUE, FALSE, TRUE, <<"/", "in">>, 0, {}, libs)

VerifierInit ==
    /\ \/ /\ impl = "dd"
          /\ cfg = ProbeConfig(NoLibs)
          /\ probe \in TrailerCalls
       \/ /\ impl \in {"dd", "dd02"}
          /\ cfg \in {ProbeConfig(AllLibs), ProbeConfig(NoLibs)}
          /\ probe \in ImageCalls
       \/ /\ impl \in {"dd", "dd02"}
          /\ cfg = ProbeConfig(AllLibs)
          /\ probe \in VideoCalls
       \/ /\ impl \in {"dd", "dd02"}
          /\ cfg \in { Hint(ProbeConfig(libs), seconds) :
                         libs \in {<<TRUE, FALSE, TRUE>>, <<TRUE, FALSE, FALSE>>},
                         seconds \in 0..MaxElapsed }
          /\ probe \in FfmpegCalls
       \/ /\ impl \in {"dd", "dd02"}
          /\ cfg = ProbeConfig(AllLibs)
          /\ probe \in FileCalls
    /\ finding = <<>>
    /\ Constructed

VerifierNext ==
    \/ check_image_trailer_call
    \/ check_image_corruption_call
    \/ check_video_corruption_call
    \/ check_file_corruption_call

VerifierSpec == VerifierInit /\ [][VerifierNext]_vars

\* ------------------------------------------------------------- properties
Terminal == {"healthy", "corrupt", "suspicious", "skipped", "error"}

StatusOf(f) == info[f].corruption_status

\* The processing phase of run_scan is over.
ScanFinished == pc \in {"report", "separate", "moving", "done"}

\* Files whose completion process_files has counted.
Counted == { f \in FileIds : task[f] = "done" /\ f \notin pending }

Recorded == { results[i] : i \in 1..Len(results) }

SnapshotIds(snap) == { snap[i].id : i \in 1..Len(snap) }

LastSnapshotIds == SnapshotIds(partial_report)

\* A record whose file the separation is to move.
QuarantineEligible(f) ==
    \/ StatusOf(f) = "corrupt"
    \/ StatusOf(f) = "suspicious" /\ (impl = "dd" \/ cfg.include_suspicious)

SeparationRan ==
    /\ pc = "done"
    /\ impl = "dd" => cfg.MOVE_CORRUPTED_FILES
    /\ impl = "dd02" => cfg.separate_files

\* C1: separation never moves a file onto an existing destination file, in
\* either implementation and whatever the quarantine tree held before; so
\* every content that was on disk before the run is still on disk.
C1_NoOverwrite ==
    /\ clobbered = {}
    /\ \A c \in DOMAIN InitialFs(cfg) : \E q \in DOMAIN fs : fs[q] = c

\* The destination a moved record was first aimed at.
FirstDest(e) ==
    IF impl = "dd"
    THEN MkPath(DestFolder(info[e.file]), e.original_path.name)
    ELSE target_path(e.original_path, original_directory,
                     TargetBase(info[e.file], cfg.include_suspicious))

HoldsOwnContent(e) ==
    /\ Resolve(e.new_path) \in DOMAIN fs
    /\ fs[Resolve(e.new_path)] = Resolve(e.original_path)

\* C2: when two moved files were aimed at the same quarantine destination,
\* the second one got a name with a numeric suffix before the extension,
\* and after separation both lie in the quarantine tree, each with the
\* content of its own original.
C2_CollisionDisambiguated ==
    pc = "done" =>
      \A i, j \in 1..Len(moved_files) :
        (i < j /\ FirstDest(moved_files[i]) = FirstDest(moved_files[j])) =>
          /\ \E k \in 1..Cardinality(DOMAIN fs) :
                moved_files[j].new_path =
                  MkPath(FirstDest(moved_files[j]).dir,
                         DestName(moved_files[j].original_path.name, k))
          /\ HoldsOwnContent(moved_files[i])
          /\ HoldsOwnContent(moved_files[j])

\* C3: once the processing phase has finished, self.results holds exactly
\* one record for every candidate file, whatever the verification gave.
C3_OneRecordPerCandidate ==
    ScanFinished =>
      /\ Len(results) = Len(files)
      /\ \A i \in 1..Len(files) :
            Cardinality({ j \in 1..Len(results) : results[j] = files[i] }) = 1

C3_Witness ==
    /\ pc = "report"
    /\ Len(files) >= 2
    /\ faulted # {}
    /\ \E f \in DOMAIN info : StatusOf(f) = "skipped"

\* C4: after a completed scan every record of self.results has a status in
\* {healthy, corrupt, suspicious, skipped, error}; none is unknown.
C4_TerminalStatus ==
    ScanFinished => \A i \in 1..Len(results) : StatusOf(results[i]) \in Terminal

C4_Witness ==
    /\ pc = "done"
    /\ \E f \in Recorded : StatusOf(f) = "error"
    /\ \E f \in Recorded : StatusOf(f) = "suspicious"

\* C5: once a record's status has left unknown it never changes again
\* (later batches, checkpoints, the report and the separation included),
\* and its file is not queued or verified again.
C5_StatusSetOnce ==
    [][\A f \in (DOMAIN info) \cap (DOMAIN info') :
          StatusOf(f) # "unknown" =>
            /\ info'[f].corruption_status = StatusOf(f)
            /\ task'[f] \in {"verified", "appending", "done"}]_vars

C5_Witness ==
    /\ pc = "done"
    /\ nextIdx > BatchLen + 1
    /\ savesWritten > 0
    /\ moved_files # <<>>

\* C6: with incremental saving enabled (and no save having failed), at
\* every point of a scan at most SAVE_PROGRESS_INTERVAL - 1 counted
\* completions are missing from the most recent checkpoint snapshot.
C6_LossBound ==
    (impl = "dd" /\ cfg.ENABLE_INCREMENTAL_SAVE /\ saveWarnings = 0) =>
      Cardinality(Counted \ LastSnapshotIds) <= cfg.SAVE_PROGRESS_INTERVAL - 1

\* C7: at any point after SAVE_PROGRESS_INTERVAL completions have been
\* counted (no save having failed) a snapshot file exists that is not empty
\* and holds the completed records, with the status each record has.
C7_SnapshotExists ==
    (impl = "dd" /\ cfg.ENABLE_INCREMENTAL_SAVE /\ saveWarnings = 0
       /\ Cardinality(Counted) >= cfg.SAVE_PROGRESS_INTERVAL) =>
      /\ savesWritten > 0
      /\ partial_report # <<>>
      /\ \A i \in 1..Len(partial_report) :
            /\ partial_report[i].id \in Recorded
            /\ partial_report[i].status = StatusOf(partial_report[i].id)

\* C8: an exception leaving a file's verification gives a record with
\* status error and the exception text in error_message, the record is
\* appended like any other, and every other file of the batch and of the
\* later batches is still verified and recorded.
C8_ErrorPolicy ==
    /\ \A f \in faulted :
          StatusOf(f) = "error" /\ info[f].error_message = ExcText
    /\ \A f \in DOMAIN info : task[f] = "done" => f \in Recorded
    /\ ScanFinished =>
          \A i \in 1..Len(files) :
            /\ files[i] \in Recorded
            /\ files[i] \notin faulted => StatusOf(files[i]) \in Terminal \ {"error"}

C8_Witness ==
    /\ ScanFinished
    /\ Len(files) >= 2
    /\ BatchLen = 1
    /\ files[1] \in faulted
    /\ StatusOf(files[2]) = "healthy"

\* C9: a failed move leaves a failure entry and the separation goes on:
\* after separation every eligible record was attempted exactly once, and
\* the successful moves plus the failure entries number the eligible records.
C9_FailureIsolation ==
    SeparationRan =>
      /\ Len(moved_files) + Len(failed_moves)
           = Cardinality({ f \in DOMAIN info : QuarantineEligible(f) })
      /\ \A f \in DOMAIN info :
            QuarantineEligible(f) =>
              Cardinality({ i \in 1..Len(moved_files) : moved_files[i].file = f })
              + Cardinality({ i \in 1..Len(failed_moves) : failed_moves[i].file = f }) = 1

C9_Witness ==
    /\ SeparationRan
    /\ \E i \in 1..Len(sepList), j \in 1..Len(sepList) :
          /\ i < j
          /\ \E a \in 1..Len(failed_moves) : failed_moves[a].file = sepList[i]
          /\ \E b \in 1..Len(moved_files) : moved_files[b].file = sepList[j]

\* C10: only records that are corrupt, or suspicious with suspicious
\* inclusion in force, are moved; the file of every other record stays
\* where it was, with its content and its recorded path.
C10_Eligibility ==
    /\ \A i \in 1..Len(moved_files) : QuarantineEligible(moved_files[i].file)
    /\ \A f \in DOMAIN info :
          ~QuarantineEligible(f) =>
            /\ SourcePath(cfg, f) \in DOMAIN fs
            /\ fs[SourcePath(cfg, f)] = SourcePath(cfg, f)
            /\ Resolve(info[f].path) = SourcePath(cfg, f)

C10_Witness ==
    /\ pc = "done"
    /\ impl = "dd02"
    /\ cfg.separate_files
    /\ ~cfg.include_suspicious
    /\ \E f \in Recorded : StatusOf(f) = "suspicious"
    /\ \E f \in Recorded : StatusOf(f) = "healthy"
    /\ moved_files # <<>>

\* The quarantine folder a moved record's file goes under.
QuarantineBase(e) ==
    IF impl = "dd" THEN DestFolder(info[e.file])
    ELSE TargetBase(info[e.file], cfg.include_suspicious)

ScannedRoot == abspath(cfg.directory_path)

UnderRoot(p) == IsPrefix(ScannedRoot, Resolve(p).dir)

\* Directory of p relative to the scanned root.
DirUnderRoot(p) == SubSeq(Resolve(p).dir, Len(ScannedRoot) + 1, Len(Resolve(p).dir))

\* C11: every moved file that lay under the scanned root went to the
\* quarantine root, the category subfolder, then its directory relative to
\* the scanned root: the source's directory layout is reproduced, and the
\* bare name is not used for a file under the root.
C11_StructurePreserved ==
    \A i \in 1..Len(moved_files) :
      UnderRoot(moved_files[i].original_path) =>
        moved_files[i].new_path.dir =
          QuarantineBase(moved_files[i]) \o DirUnderRoot(moved_files[i].original_path)

\* C12: after separation the path of every record designates the place
\* where its file lies: the destination for a moved record, the original
\* place for every other.
C12_PathUpdated ==
    pc = "done" =>
      /\ \A i \in 1..Len(moved_files) :
            info[moved_files[i].file].path = moved_files[i].new_path
      /\ \A f \in DOMAIN info :
            /\ exists(fs, info[f].path)
            /\ fs[Resolve(info[f].path)] = SourcePath(cfg, f)

\* The status check_file_corruption gives a file on whose content the
\* verifier finds `found`.
StatusFor(found) == IF found = "raise" THEN "error" ELSE found

\* C13 (as claimed): after the scan the status of every candidate is the one
\* its content calls for, whatever THREAD_COUNT is and however the worker
\* tasks interleaved: two runs on the same files give the same statuses.
C13_OrderIndependence ==
    ScanFinished =>
      \A i \in 1..Len(files) :
        StatusOf(files[i]) = StatusFor(finding[files[i]])

\* C13 (amended): the same for every candidate that is verified in-process
\* (not by the ffmpeg run of dd02, whose verdict also depends on its
\* timeout); the order of self.results is free.
C13_OrderIndependenceInProcess ==
    ScanFinished =>
      \A i \in 1..Len(files) :
        ~UsesFfmpeg(cfg, info[files[i]]) =>
          StatusOf(files[i]) = StatusFor(finding[files[i]])

C13_Witness ==
    /\ ScanFinished
    /\ cfg.THREAD_COUNT > 1
    /\ Len(files) >= 2
    /\ results[1] # files[1]
    /\ info[files[1]].is_image /\ info[files[2]].is_image
    /\ finding[files[1]] # finding[files[2]]
    /\ StatusOf(files[1]) = "corrupt"

CandidateIds == { files[i] : i \in 1..Len(files) }

\* C14: a file below MIN_FILE_SIZE_BYTES, above MAX_FILE_SIZE_MB MB or with
\* a suffix that is, in lower case, no image and no video suffix is no
\* candidate, is never submitted and never gets a record; every other file
\* of the tree (one of exactly the least or the largest size included, and
\* one with an upper-case suffix) is a candidate.
C14_CandidateFilter ==
    /\ Recorded \subseteq CandidateIds
    /\ (pc # "start" /\ cfg.root_exists) =>
          \A f \in 1..cfg.numFiles :
            IF KindOf(cfg, f) \in {"tiny", "huge", "text"}
            THEN /\ f \notin CandidateIds
                 /\ f \notin DOMAIN info
                 /\ f \notin Recorded
                 /\ task[f] = "idle"
            ELSE f \in CandidateIds

C14_Witness ==
    /\ ScanFinished
    /\ \E f \in 1..cfg.numFiles : KindOf(cfg, f) = "tiny"
    /\ \E f \in 1..cfg.numFiles : KindOf(cfg, f) = "plain" /\ f \in Recorded
    /\ \A f \in Recorded : StatusOf(f) = "skipped"

ReportWritten == pc \in {"separate", "moving", "done"}

\* C16: when the root directory does not exist run_scan returns its error
\* result straight after scan_directory: no task is submitted, self.results
\* stays empty, no partial report and no report is written, no file is
\* moved, and nothing happens after the return.
C16_MissingRootFatal ==
    ~cfg.root_exists =>
      /\ pc \in {"start", "error"}
      /\ files = <<>> /\ results = <<>> /\ DOMAIN info = {}
      /\ \A f \in FileIds : task[f] = "idle" /\ batch_of[f] = 0
      /\ savesWritten = 0 /\ partial_report = <<>>
      /\ ~ReportWritten
      /\ fs = InitialFs(cfg)
      /\ moved_files = <<>> /\ failed_moves = <<>>
      /\ original_directory = <<>>
      /\ pc = "error" => ~ENABLED Next

C16_Witness ==
    /\ pc = "error"
    /\ ~cfg.root_exists
    /\ DOMAIN fs # {}

\* C17: at every moment at most THREAD_COUNT verification tasks are
\* executing, each on a worker of the pool, and no worker executes two
\* tasks at a time.
C17_BoundedConcurrency ==
    /\ Cardinality(Executing) <= cfg.THREAD_COUNT
    /\ \A f \in Executing : worker[f] \in 1..cfg.THREAD_COUNT
    /\ \A f, g \in Executing : f # g => worker[f] # worker[g]

C17_Witness ==
    /\ cfg.THREAD_COUNT = MaxThreads
    /\ Cardinality(Executing) = cfg.THREAD_COUNT
    /\ \E f \in FileIds : task[f] = "queued"

\* Tasks submitted to the pool and not yet completed.
InFlight ==
    { f \in FileIds : task[f] \in {"queued", "running", "verified", "appending"} }

\* The batch the claim puts the i-th candidate in.
ClaimedBatch(i) ==
    IF Len(files) > cfg.BATCH_SIZE THEN ((i - 1) \div cfg.BATCH_SIZE) + 1 ELSE 1

\* C18: with BATCH_SIZE > 0, damage_detector.py's run_scan submits the
\* candidates in consecutive batches of BATCH_SIZE files (the last one
\* possibly smaller; one batch when the candidates are no more than
\* BATCH_SIZE), every candidate in exactly one batch; a task of a later
\* batch is submitted only when every task of the earlier batches has
\* completed and been counted, and never more than BATCH_SIZE tasks are
\* submitted and not completed.
C18_SequentialBatching ==
    (impl = "dd" /\ cfg.BATCH_SIZE > 0) =>
      /\ Cardinality(InFlight) <= cfg.BATCH_SIZE
      /\ \A i \in 1..Len(files) : batch_of[files[i]] \in {0, ClaimedBatch(i)}
      /\ \A i, j \in 1..Len(files) :
            (batch_of[files[i]] # 0 /\ batch_of[files[i]] < batch_of[files[j]]) =>
              task[files[i]] = "done" /\ files[i] \notin pending
      /\ \A i, j \in 1..Len(files) :
            (i < j /\ batch_of[files[j]] # 0) => batch_of[files[i]] # 0
      /\ ScanFinished => \A i \in 1..Len(files) : batch_of[files[i]] = ClaimedBatch(i)

C18_Witness ==
    /\ impl = "dd"
    /\ cfg.BATCH_SIZE = 2
    /\ cfg.THREAD_COUNT = 2
    /\ Len(files) = 3
    /\ batch_of[files[3]] = 2
    /\ task[files[3]] = "running"

\* C19: at most one stall warning is ever logged for a task; it is logged
\* only while the task is in process_files' pending set and the time since
\* its submission exceeds TIMEOUT_SECONDS; logging it changes no task, no
\* record and no pending set, and a warned task that finishes is recorded
\* with its status like any other.
C19_StallWarningsAdvisory ==
    /\ [](\A f \in FileIds :
            /\ stall_warnings[f] <= 1
            /\ (stall_warnings[f] > 0 /\ task[f] = "done") =>
                  f \in Recorded /\ StatusOf(f) \in Terminal)
    /\ [][\A f \in FileIds :
            stall_warnings'[f] # stall_warnings[f] =>
              /\ stall_warnings[f] = 0 /\ stall_warnings'[f] = 1
              /\ f \in pending
              /\ elapsed > cfg.TIMEOUT_SECONDS
              /\ UNCHANGED <<task, worker, info, results, pending, nextIdx, pc>>]_vars

C19_Witness ==
    /\ ScanFinished
    /\ Len(files) >= 2
    /\ \E f \in Recorded : stall_warnings[f] = 1 /\ StatusOf(f) = "skipped"
    /\ \E f \in Recorded : stall_warnings[f] = 0

\* C20: in every step self.results only grows and no recorded status
\* changes; a step that writes a partial report changes no record of
\* self.results, and the report it writes holds every record of the report
\* written before, with the same status.
C20_CheckpointAdditive ==
    [][/\ IsPrefix(results, results')
       /\ \A f \in Recorded : info'[f].corruption_status = StatusOf(f)
       /\ partial_report' # partial_report =>
            /\ results' = results
            /\ info' = info
            /\ \A i \in 1..Len(partial_report) :
                 \E j \in 1..Len(partial_report') :
                   partial_report'[j] = partial_report[i]]_vars

C20_Witness ==
    /\ savesWritten >= 2
    /\ Len(partial_report) >= 2
    /\ cfg.THREAD_COUNT > 1
    /\ partial_report[1].status # partial_report[2].status

\* Tasks inside "with self.lock".
Appending == { f \in FileIds : task[f] = "appending" }

\* Tasks that have finished their append.
Appended == { f \in FileIds : task[f] = "done" }

\* C21: a step of the scan changes the FileInfo of one file only, that of
\* the task taking the step, so the tasks share nothing but self.results;
\* every append to self.results is made by a task that holds self.lock, at
\* most one task is inside the append at a time, and the number of records
\* always equals the number of tasks that have finished their append.
C21_MutexGuardedAppend ==
    /\ [](/\ Cardinality(Appending) <= 1
          /\ \A f \in Appending : lock = f
          /\ Len(results) = Cardinality(Appended))
    /\ [][/\ results' # results =>
              \E f \in FileIds :
                /\ lock = f
                /\ task[f] = "appending"
                /\ results' = Append(results, f)
          /\ (pc = "process" /\ info' # info) =>
              \E f \in DOMAIN info :
                /\ task[f] = "running" /\ task'[f] = "verified"
                /\ \A g \in DOMAIN info \ {f} : info'[g] = info[g]]_vars

\* What the claim gives as the reference of the trailer check: the marker
\* of the format lies in the last `window` bytes of a file that can be read.
MarkerInLast(file, marker, window) ==
    /\ file.openable
    /\ \E p \in file.at..(file.at + Len(file.bytes) - 1) :
          /\ p >= file.size - window
          /\ p + Len(marker) <= file.size
          /\ \A j \in 1..Len(marker) : ByteAt(file, p + j - 1) = marker[j]

TrailerReference(file, ext) ==
    CASE ext \in {".jpg", ".jpeg"} -> MarkerInLast(file, JPEG_EOI, 64 * 1024)
      [] ext = ".png"              -> MarkerInLast(file, PNG_IEND, 64 * 1024)
      [] ext = ".gif"              -> MarkerInLast(file, GIF_TRAILER, 16 * 1024)
      [] OTHER                     -> TRUE

\* C22 (as claimed): _check_image_trailer returns ok exactly when the end
\* marker of the format (FF D9 for .jpg/.jpeg, IEND for .png, 3B for .gif)
\* lies in the last 64 KiB (16 KiB for .gif) of the file, the whole file if
\* it is smaller; always for another suffix; never when reading fails.
C22_TrailerMatchesReference ==
    Returned("_check_image_trailer") =>
      (probe.value.ok <=> TrailerReference(probe.args.file, lower(probe.args.extension)))

\* C22 (amended): the same, except that a .png file shorter than 12 bytes
\* is not ok whatever it holds.
C22_TrailerMatchesReferenceFromMinSize ==
    Returned("_check_image_trailer") =>
      (probe.value.ok <=>
         /\ TrailerReference(probe.args.file, lower(probe.args.extension))
         /\ lower(probe.args.extension) = ".png" => probe.args.file.size >= 12)

C22_Witness ==
    /\ Returned("_check_image_trailer")
    /\ probe.args.extension = ".png"
    /\ probe.args.file.size = JPEG_WINDOW + 4
    /\ probe.args.file.at = 4
    /\ probe.args.file.bytes = PNG_IEND \o <<174, 66>>
    /\ probe.value.ok

\* The image of a returned check_image_corruption call, and its verdict.
Img == probe.args.file_info

ImgFailed == Img.stage # "none"

\* The stages of the full decode: the second open, convert and tobytes.
ImgDecodeFailed == Img.stage \in {"reopen", "convert", "tobytes"}

\* C23 (as claimed): check_image_corruption returns skipped without Pillow,
\* whatever the file; with Pillow the first failing stage gives the verdict:
\* a raising open, verify or decode gives corrupt (format not recognized
\* for an unidentified format, the truncation reason whenever an error of
\* the full decode mentions truncation), then a non-positive width or height gives corrupt,
\* then a failed trailer check gives corrupt with the trailer's reason;
\* healthy when every stage passes.  A .jpg that decodes and has no FF D9
\* in its tail is corrupt with the missing end marker as reason.
C23_ImageDecisionOrder ==
    Returned("check_image_corruption") =>
      LET v == probe.value
          trailer == _check_image_trailer(Img.file, Img.extension)
      IN  IF ~cfg.PIL_AVAILABLE THEN v.status = "skipped"
          ELSE IF ImgFailed
          THEN /\ v.status = "corrupt"
               /\ Img.raised.class = "UnidentifiedImageError" =>
                     v.details = "format not recognized"
               /\ (ImgDecodeFailed /\ Mentions(Img.raised, "truncat")) =>
                     v.details = "image truncated"
          ELSE IF Img.width <= 0 \/ Img.height <= 0
          THEN v = Verdict("corrupt", "invalid image dimensions")
          ELSE IF ~trailer.ok
          THEN /\ v = Verdict("corrupt", trailer.reason)
               /\ (Img.extension = ".jpg" /\ Img.file.openable) =>
                     v.details = "JPEG end (FFD9) not found"
          ELSE v.status = "healthy"

\* C23 (amended): the same, the truncation reason being given when the
\* error is an OSError that mentions truncation; an error of another class
\* gives corrupt with the general reason, which quotes the error's text.
C23_ImageDecisionOrderOSError ==
    Returned("check_image_corruption") =>
      LET v == probe.value
          trailer == _check_image_trailer(Img.file, Img.extension)
      IN  IF ~cfg.PIL_AVAILABLE THEN v.status = "skipped"
          ELSE IF ImgFailed
          THEN /\ v.status = "corrupt"
               /\ Img.raised.class = "UnidentifiedImageError" =>
                     v.details = "format not recognized"
               /\ (Img.raised.class = "OSError" /\ Mentions(Img.raised, "truncat")) =>
                     v.details = "image truncated"
               /\ Img.raised.class \notin {"UnidentifiedImageError", "OSError"} =>
                     v.details = "image check error: " \o Img.raised.text
          ELSE IF Img.width <= 0 \/ Img.height <= 0
          THEN v = Verdict("corrupt", "invalid image dimensions")
          ELSE IF ~trailer.ok
          THEN /\ v = Verdict("corrupt", trailer.reason)
               /\ (Img.extension = ".jpg" /\ Img.file.openable) =>
                     v.details = "JPEG end (FFD9) not found"
          ELSE v.status = "healthy"

C23_Witness ==
    /\ Returned("check_image_corruption")
    /\ cfg.PIL_AVAILABLE
    /\ Img.stage = "tobytes"
    /\ Img.raised = Exc("OSError", "image file is truncated (8 bytes not processed)")
    /\ Img.width = 0
    /\ ~_check_image_trailer(Img.file, Img.extension).ok
    /\ probe.value = Verdict("corrupt", "image truncated")

\* The video of a returned check_video_corruption call.
Vid == probe.args.file_info

\* The number of frames the claim has the verifier sample.
Sampled(vid) == IF vid.frame_count > 0 THEN Min(10, vid.frame_count) ELSE 10

Decoded(vid) == Min(vid.decodable, Sampled(vid))

\* The status the claim gives for a video on the primary path.
PrimaryStatus(vid) ==
    IF ~vid.opens THEN "corrupt"
    ELSE IF vid.width <= 0 \/ vid.height <= 0 THEN "corrupt"
    ELSE IF Decoded(vid) = 0 THEN "corrupt"
    ELSE IF vid.frame_count > 0 /\ 2 * Decoded(vid) < Sampled(vid) THEN "suspicious"
    ELSE "healthy"

PrimaryPath ==
    /\ Returned("check_video_corruption")
    /\ cfg.CV2_AVAILABLE
    /\ Vid.stage \in {"none", "release"}

\* No more frames are read than are to be sampled, and all of them when
\* every read gives a frame.
SamplingAsClaimed ==
    /\ probe.value.reads <= Sampled(Vid)
    /\ Vid.decodable >= Sampled(Vid) => probe.value.reads = Sampled(Vid)

\* C24 (as claimed): with OpenCV, in both programs, check_video_corruption
\* gives corrupt for a container that does not open or has a non-positive
\* width or height; otherwise it samples min(10, frame count) frames (10
\* when the count is not positive) and gives corrupt when none decoded,
\* suspicious when the count is positive and fewer than half of the sampled
\* frames decoded, healthy in every other case.
C24_VideoPrimaryPath ==
    PrimaryPath =>
      /\ probe.value.status = PrimaryStatus(Vid)
      /\ (Vid.opens /\ Vid.width > 0 /\ Vid.height > 0) => SamplingAsClaimed

\* C24 (amended): the same, except that damage_detector.py gives suspicious
\* instead of healthy when frame count and fps are positive and the file
\* has less than 1000 bytes per second of video.
C24_VideoPrimaryPathBitrate ==
    PrimaryPath =>
      /\ probe.value.status =
            (IF PrimaryStatus(Vid) = "healthy" /\ impl = "dd"
                /\ Vid.frame_count > 0 /\ Vid.fps > 0
                /\ Vid.size * Vid.fps < 1000 * Vid.frame_count
             THEN "suspicious" ELSE PrimaryStatus(Vid))
      /\ (Vid.opens /\ Vid.width > 0 /\ Vid.height > 0) => SamplingAsClaimed

C24_Witness ==
    /\ PrimaryPath
    /\ Vid.frame_count = 3
    /\ Vid.decodable = 1
    /\ probe.value.status = "suspicious"
    /\ probe.value.reads = 2

FallbackPath ==
    /\ Returned("check_video_corruption")
    /\ ~cfg.CV2_AVAILABLE

\* The status the claim gives for running the external tool on a video.
FallbackStatus(c, tool) ==
    IF ~c.ffmpeg THEN "skipped"
    ELSE IF ~tool.startable THEN "corrupt"
    ELSE IF tool.needs > c.TIMEOUT_SECONDS THEN "suspicious"
    ELSE IF tool.stderr # "" THEN "corrupt"
    ELSE "healthy"

\* C25: without OpenCV, check_video_corruption runs the external tool with a
\* timeout of TIMEOUT_SECONDS: diagnostics on stderr give corrupt, the
\* timeout expiring gives suspicious, a missing binary gives skipped, any
\* other failure to run it gives corrupt, no diagnostics give healthy; and
\* skipped is returned only when the binary is missing.
C25_VideoFallbackPath ==
    FallbackPath =>
      /\ probe.value.status = FallbackStatus(cfg, probe.args.tool)
      /\ probe.value.status = "skipped" => ~cfg.ffmpeg

\* C26: when process_files writes a partial report, the report holds a
\* record for every task whose completion the loop has counted by then,
\* the one counted last included, and every record of it has a terminal
\* status.
C26_SnapshotConsistent ==
    [][savesWritten' # savesWritten =>
         /\ Counted' \subseteq SnapshotIds(partial_report')
         /\ \A i \in 1..Len(partial_report') : partial_report'[i].status \in Terminal]_vars

\* A report written while a task of the batch was still on its way holds
\* the records of the counted tasks.
C26_Witness ==
    /\ savesWritten >= 1
    /\ pc = "process"
    /\ Cardinality(Counted) >= 2
    /\ Counted \subseteq LastSnapshotIds
    /\ \E f \in pending : task[f] \in {"running", "verified", "appending"}
    /\ \E i \in 1..Len(partial_report) : partial_report[i].status = "error"

\* The FileInfo a check_file_corruption call was made on.
Probed == probe.args.file_info

\* A library call of the open, decode or frame-read stages raises, or the
\* trailer stage cannot read the file.
DecoderFault(fi) ==
    \/ /\ fi.is_image
       /\ \/ \E i \in 1..Len(ImageStages) : ImageStages[i] = fi.media.stage
          \/ /\ fi.media.width > 0 /\ fi.media.height > 0
             /\ lower(fi.media.extension) \in {".jpg", ".jpeg", ".png", ".gif"}
             /\ ~fi.media.file.openable
    \/ /\ fi.is_video
       /\ \E i \in 1..Len(VideoStages) : VideoStages[i] = fi.media.stage

\* C27: an exception raised by the decoder during check_image_corruption or
\* check_video_corruption (opening, decoding, reading frames, reading the
\* trailer) is turned into corrupt by the verifier and does not reach
\* check_file_corruption's except branch: the record is corrupt and not
\* error, and error_message is non-empty only where the status is error.
C27_DecoderFaultIsCorrupt ==
    Returned("check_file_corruption") =>
      /\ DecoderFault(Probed) =>
            /\ probe.value.corruption_status = "corrupt"
            /\ probe.value.error_message = ""
      /\ probe.value.error_message # "" => probe.value.corruption_status = "error"

C27_Witness ==
    /\ Returned("check_file_corruption")
    /\ Probed.is_video
    /\ Probed.media.stage = "read"
    /\ probe.value.corruption_status = "corrupt"
    /\ probe.value.error_message = ""

\* A record of the list the second call goes through has been moved.
MovedBefore(f) == \E i \in 1..Len(moved_files) : moved_files[i].file = f

\* C28: where every move of a first move_corrupted_files call succeeded, a
\* second call on the same results leaves every quarantined file where it
\* is, under its name, and leaves path and name of every record as they
\* are.
C28_SecondCallChangesNothing ==
    [][(/\ pc = "moving_again"
        /\ failed_moves = <<>>
        /\ \A i \in 1..Len(sepList) : MovedBefore(sepList[i]))
       => /\ fs' = fs
          /\ \A f \in DOMAIN info : /\ info'[f].path = info[f].path
                                     /\ info'[f].name = info[f].name]_vars

\* process_files counts one completion.
CompletionCounted == pc = "process" /\ pending' # pending /\ pending' \subseteq pending

WriteFailed == saveWarnings' = saveWarnings + 1

WriteAttempted == WriteFailed \/ savesWritten' = savesWritten + 1

\* The counter of damage_detector.py is where only a failed write leaves it.
AfterFailedWrite ==
    /\ impl = "dd"
    /\ cfg.ENABLE_INCREMENTAL_SAVE
    /\ processed_since_save >= cfg.SAVE_PROGRESS_INTERVAL

\* C29: a partial report that cannot be written costs a warning and
\* nothing else: the counter of completions since the last report is not
\* reset, self.results and the records stay as they are, the loop goes on
\* with the other futures, and the very next completion counted in the
\* same process_files call tries to write a report again.
C29_FailedSaveRetried ==
    /\ [][WriteFailed =>
            /\ CompletionCounted
            /\ processed_since_save' = processed_since_save + 1
            /\ processed_since_save' >= cfg.SAVE_PROGRESS_INTERVAL
            /\ results' = results /\ info' = info
            /\ partial_report' = partial_report
            /\ pc' = IF pending' = {} /\ nextIdx > Len(files) THEN "report" ELSE "process"]_vars
    /\ [][(CompletionCounted /\ AfterFailedWrite) => WriteAttempted]_vars
    /\ [](AfterFailedWrite => saveWarnings > 0)

\* The first write failed, the next completion's write succeeded and holds
\* the records of both completions.
C29_Witness ==
    /\ pc = "process"
    /\ cfg.SAVE_PROGRESS_INTERVAL = 1
    /\ saveWarnings = 1
    /\ savesWritten = 1
    /\ Len(partial_report) = 2
    /\ processed_since_save = 0

\* C30 (as claimed): a stall warning is logged only for a task that a
\* worker is executing (and has been for longer than TIMEOUT_SECONDS); a
\* task still in the pool's queue, which no worker has started, gets none.
C30_WarnedTaskIsExecuting ==
    [][\A f \in FileIds :
         stall_warnings'[f] > stall_warnings[f] =>
           /\ task[f] # "queued"
           /\ f \in Executing]_vars

\* C30 (amended): a stall warning is logged for a task of the running
\* process_files call when more than TIMEOUT_SECONDS have passed since the
\* call submitted its tasks and the loop has not yet seen the task done,
\* whether a worker has started it or not.
C30_WarnedTaskIsOverdue ==
    [][\A f \in FileIds :
         stall_warnings'[f] > stall_warnings[f] =>
           /\ pc = "process"
           /\ batch_of[f] = CallsSoFar
           /\ f \in pending
           /\ elapsed > cfg.TIMEOUT_SECONDS
           /\ task[f] \in {"queued", "running", "verified", "appending", "done"}]_vars

\* A task waiting in the queue behind the busy worker has been warned.
C30_Witness ==
    \E f, g \in FileIds :
        /\ stall_warnings[f] = 1
        /\ task[f] = "queued"
        /\ g \in Executing
        /\ Busy = 1..cfg.THREAD_COUNT

====
